---------------------------- MODULE Spec2Model ----------------------------
(***************************************************************************)
(* A model of src/suffix_tree.py: class SuffixTree, an online (Ukkonen /    *)
(* Nelson style) suffix tree builder with three read-only analyses.        *)
(*                                                                         *)
(* Symbols are character codes (36 = '$', 97 = 'a', 98 = 'b'), so that     *)
(* sorted() orders them as Python orders one-character strings.            *)
(* All text and node indices are 0-based as in the source; Get/Put turn    *)
(* them into TLA+'s 1-based sequences and keep Python's negative indexing. *)
(* A raised exception is pc = "error" with its name in exc; the object     *)
(* keeps whatever had been written before the raise.                       *)
(***************************************************************************)
EXTENDS Integers, Sequences, FiniteSets, TLC

VARIABLES
    T, E, nodes,                 \* self.T, self.E, self.nodes
    choices, counts, suffix_counts,  \* self.choices, self.counts, self.suffix_counts
    pc, exc,                     \* position in add / idle / queried / error
    s,                           \* add's argument
    origin, first, last, nc, Lm1,
    last_char_index, c, last_parent_node, parent_node,
    key, edge_first, edge_last, edge_end, span, A, m,
    ret,                         \* the value the last query returned
    calls, pre                   \* history: add calls begun; the call last begun, with
                                 \* its argument and the tree as it was then

vars == <<T, E, nodes, choices, counts, suffix_counts, pc, exc, s,
          origin, first, last, nc, Lm1, last_char_index, c,
          last_parent_node, parent_node, key, edge_first, edge_last,
          edge_end, span, A, m, ret, calls, pre>>

\* ------------------------------------------------------------------ bounds
MaxLen == 5      \* longest batch of the single-call specification
MaxTotal == 4    \* longest total text of the many-call specification
MaxCalls == 3    \* add calls in one behaviour of the many-call specification

Alphabet == {36, 97, 98}

Seqs(n) == UNION {[1..k -> Alphabet] : k \in 0..n}

\* ------------------------------------------------- Python lists and dicts
InRange(seq, i) == -Len(seq) <= i /\ i < Len(seq)
Idx(seq, i) == IF i >= 0 THEN i + 1 ELSE Len(seq) + i + 1
Get(seq, i) == seq[Idx(seq, i)]
Put(seq, i, v) == [seq EXCEPT ![Idx(seq, i)] = v]
Rep(v, n) == [i \in 1..n |-> v]
HasKey(d, k) == k \in DOMAIN d
SetItem(d, k, v) == (k :> v) @@ d

Raise(f, name) == [f EXCEPT !.pc = "error", !.exc = name]

\* ------------------------------------------------------------ the object
Cur ==
    [T |-> T, E |-> E, nodes |-> nodes, choices |-> choices, counts |-> counts,
     suffix_counts |-> suffix_counts, pc |-> pc, exc |-> exc, s |-> s,
     origin |-> origin, first |-> first, last |-> last, nc |-> nc, Lm1 |-> Lm1,
     last_char_index |-> last_char_index, c |-> c,
     last_parent_node |-> last_parent_node, parent_node |-> parent_node,
     key |-> key, edge_first |-> edge_first, edge_last |-> edge_last,
     edge_end |-> edge_end, span |-> span, A |-> A, m |-> m, ret |-> ret,
     calls |-> calls, pre |-> pre]

Load(f) ==
    /\ T' = f.T /\ E' = f.E /\ nodes' = f.nodes /\ choices' = f.choices
    /\ counts' = f.counts /\ suffix_counts' = f.suffix_counts
    /\ pc' = f.pc /\ exc' = f.exc /\ s' = f.s
    /\ origin' = f.origin /\ first' = f.first /\ last' = f.last
    /\ nc' = f.nc /\ Lm1' = f.Lm1 /\ last_char_index' = f.last_char_index
    /\ c' = f.c /\ last_parent_node' = f.last_parent_node
    /\ parent_node' = f.parent_node /\ key' = f.key
    /\ edge_first' = f.edge_first /\ edge_last' = f.edge_last
    /\ edge_end' = f.edge_end /\ span' = f.span /\ A' = f.A /\ m' = f.m
    /\ ret' = f.ret /\ calls' = f.calls /\ pre' = f.pre

NoRet == [op |-> "none"]

\* What a public method finds when it is called.
Called(f, op, arg) ==
    [op |-> op, arg |-> arg, T |-> f.T, E |-> f.E, nodes |-> f.nodes]

\* __init__: T = '', E = {}, nodes = [-1]; no call is running.
New ==
    [T |-> <<>>, E |-> <<>>, nodes |-> <<-1>>, choices |-> <<>>, counts |-> <<>>,
     suffix_counts |-> <<>>, pc |-> "idle", exc |-> "", s |-> <<>>,
     origin |-> 0, first |-> 0, last |-> 0, nc |-> 0, Lm1 |-> 0,
     last_char_index |-> 0, c |-> 0, last_parent_node |-> 0, parent_node |-> 0,
     key |-> <<0, 0>>, edge_first |-> 0, edge_last |-> 0, edge_end |-> 0,
     span |-> 0, A |-> 0, m |-> 0, ret |-> NoRet, calls |-> 0,
     pre |-> [op |-> "new", arg |-> <<>>, T |-> <<>>, E |-> <<>>, nodes |-> <<-1>>]]

\* The locals of add die when it returns.
Return(f) ==
    [New EXCEPT !.T = f.T, !.E = f.E, !.nodes = f.nodes, !.choices = f.choices,
                !.counts = f.counts, !.suffix_counts = f.suffix_counts,
                !.calls = f.calls, !.pre = f.pre]

\* ------------------------------------------------------------------- add
\* add that always grows self.nodes, by one slot more than 2*len(s).
AddBeginStepPad(f, batch) ==
    LET T2 == f.T \o batch IN
    [f EXCEPT !.s = batch,
              !.origin = 0, !.first = Len(f.T), !.last = Len(f.T) - 1,
              !.T = T2,
              !.nc = Len(f.nodes),
              !.nodes = f.nodes \o Rep(-1, 2 * Len(batch) + 1),
              !.Lm1 = Len(T2) - 1,
              !.last_char_index = Len(f.T) - 1,
              !.ret = NoRet,
              !.calls = f.calls + 1,
              !.pre = Called(f, "add", batch),
              !.pc = "for"]

\* add that grows self.nodes by len(s) slots only.
AddBeginStepHalf(f, batch) ==
    LET T2 == f.T \o batch IN
    [f EXCEPT !.s = batch,
              !.origin = 0, !.first = Len(f.T), !.last = Len(f.T) - 1,
              !.T = T2,
              !.nc = Len(f.nodes),
              !.nodes = f.nodes \o Rep(-1, Len(batch)),
              !.Lm1 = Len(T2) - 1,
              !.last_char_index = Len(f.T) - 1,
              !.ret = NoRet,
              !.calls = f.calls + 1,
              !.pre = Called(f, "add", batch),
              !.pc = "for"]

\* Lines 62-70; the iterator of line 71 stands before its first index.
AddBeginStep(f, batch) ==
    LET T2 == f.T \o batch IN
    [f EXCEPT !.s = batch,
              !.origin = 0, !.first = Len(f.T), !.last = Len(f.T) - 1,
              !.T = T2,
              !.nc = Len(f.nodes),
              !.nodes = f.nodes \o Rep(-1, 2 * Len(batch)),
              !.Lm1 = Len(T2) - 1,
              !.last_char_index = Len(f.T) - 1,
              !.ret = NoRet,
              !.calls = f.calls + 1,
              !.pre = Called(f, "add", batch),
              !.pc = "for"]

\* Lines 71-73 and 124: the next index of xrange(first, len(T)), or return.
ForStep(f) ==
    IF f.last_char_index + 1 < Len(f.T)
    THEN [f EXCEPT !.last_char_index = @ + 1,
                   !.c = Get(f.T, f.last_char_index + 1),
                   !.last_parent_node = -1,
                   !.pc = "while"]
    ELSE Return(f)

\* Lines 75-86: the test at the head of the while body.
WhileStep(f) ==
    LET g == [f EXCEPT !.parent_node = f.origin] IN
    IF f.first > f.last
    THEN IF HasKey(f.E, <<f.origin, f.c>>)
         THEN [g EXCEPT !.pc = "after"]
         ELSE [g EXCEPT !.pc = "leaf"]
    ELSE IF ~InRange(f.T, f.first) THEN Raise(g, "IndexError")
    ELSE LET k == <<f.origin, Get(f.T, f.first)>> IN
         IF ~HasKey(f.E, k) THEN Raise([g EXCEPT !.key = k], "KeyError")
         ELSE LET e == f.E[k]
                  sp == f.last - f.first
                  a == e[1] + sp
                  h == [g EXCEPT !.key = k, !.edge_first = e[1], !.edge_last = e[2],
                                 !.edge_end = e[3], !.span = sp, !.A = a]
              IN IF ~InRange(f.T, a + 1) THEN Raise(h, "IndexError")
                 ELSE LET mm == Get(f.T, a + 1) IN
                      IF mm = f.c
                      THEN [h EXCEPT !.m = mm, !.pc = "after"]
                      ELSE [h EXCEPT !.m = mm, !.pc = "split1"]

\* A split that forgets to cut the old edge short at A.
Split1StepUncut(f) ==
    LET g == [f EXCEPT !.E = SetItem(f.E, f.key, <<f.edge_first, f.edge_last, f.nc>>)] IN
    IF ~InRange(f.nodes, f.nc) THEN Raise(g, "IndexError")
    ELSE [g EXCEPT !.nodes = Put(f.nodes, f.nc, f.origin), !.pc = "split2"]

\* Lines 87-88: the old edge is cut short at A and led to the new node nc.
Split1Step(f) ==
    LET g == [f EXCEPT !.E = SetItem(f.E, f.key, <<f.edge_first, f.A, f.nc>>)] IN
    IF ~InRange(f.nodes, f.nc) THEN Raise(g, "IndexError")
    ELSE [g EXCEPT !.nodes = Put(f.nodes, f.nc, f.origin), !.pc = "split2"]

\* A split that keys the rest of the old edge by the symbol being added.
Split2StepKeyC(f) ==
    [f EXCEPT !.E = SetItem(f.E, <<f.nc, f.c>>, <<f.A + 1, f.edge_last, f.edge_end>>),
              !.parent_node = f.nc,
              !.nc = f.nc + 1,
              !.pc = "leaf"]

\* A split that stores the rest of the old edge from A on, not from A + 1.
Split2StepFromA(f) ==
    [f EXCEPT !.E = SetItem(f.E, <<f.nc, f.m>>, <<f.A, f.edge_last, f.edge_end>>),
              !.parent_node = f.nc,
              !.nc = f.nc + 1,
              !.pc = "leaf"]

\* A split that does not store the rest of the old edge.
Split2StepDropRest(f) ==
    [f EXCEPT !.parent_node = f.nc,
              !.nc = f.nc + 1,
              !.pc = "leaf"]

\* A split that does not count the node it has made.
Split2StepNoCount(f) ==
    [f EXCEPT !.E = SetItem(f.E, <<f.nc, f.m>>, <<f.A + 1, f.edge_last, f.edge_end>>),
              !.parent_node = f.nc,
              !.pc = "leaf"]

\* Lines 89-91: the rest of the old edge leaves the new node.
Split2Step(f) ==
    [f EXCEPT !.E = SetItem(f.E, <<f.nc, f.m>>, <<f.A + 1, f.edge_last, f.edge_end>>),
              !.parent_node = f.nc,
              !.nc = f.nc + 1,
              !.pc = "leaf"]

\* The new leaf edge without the write of line 95.
LeafStepNoLink(f) ==
    [f EXCEPT !.E = SetItem(f.E, <<f.parent_node, f.c>>,
                            <<f.last_char_index, f.Lm1, f.nc>>),
              !.nc = f.nc + 1,
              !.last_parent_node = f.parent_node,
              !.pc = "fallback"]

\* The new leaf edge, with line 95 storing the handle of the new leaf.
LeafStepLinkLeaf(f) ==
    LET g == [f EXCEPT !.E = SetItem(f.E, <<f.parent_node, f.c>>,
                                     <<f.last_char_index, f.Lm1, f.nc>>),
                       !.nc = f.nc + 1]
    IN IF f.last_parent_node > 0
       THEN IF ~InRange(f.nodes, f.last_parent_node) THEN Raise(g, "IndexError")
            ELSE [g EXCEPT !.nodes = Put(f.nodes, f.last_parent_node, f.nc),
                           !.last_parent_node = f.parent_node,
                           !.pc = "fallback"]
       ELSE [g EXCEPT !.last_parent_node = f.parent_node, !.pc = "fallback"]

\* A leaf edge that ends at the symbol being processed, not at the end of T.
LeafStepShort(f) ==
    LET g == [f EXCEPT !.E = SetItem(f.E, <<f.parent_node, f.c>>,
                                     <<f.last_char_index, f.last_char_index, f.nc>>),
                       !.nc = f.nc + 1]
    IN IF f.last_parent_node > 0
       THEN IF ~InRange(f.nodes, f.last_parent_node) THEN Raise(g, "IndexError")
            ELSE [g EXCEPT !.nodes = Put(f.nodes, f.last_parent_node, f.parent_node),
                           !.last_parent_node = f.parent_node,
                           !.pc = "fallback"]
       ELSE [g EXCEPT !.last_parent_node = f.parent_node, !.pc = "fallback"]

\* Lines 92-96: the new leaf edge, and the suffix link of the previous parent.
LeafStep(f) ==
    LET g == [f EXCEPT !.E = SetItem(f.E, <<f.parent_node, f.c>>,
                                     <<f.last_char_index, f.Lm1, f.nc>>),
                       !.nc = f.nc + 1]
    IN IF f.last_parent_node > 0
       THEN IF ~InRange(f.nodes, f.last_parent_node) THEN Raise(g, "IndexError")
            ELSE [g EXCEPT !.nodes = Put(f.nodes, f.last_parent_node, f.parent_node),
                           !.last_parent_node = f.parent_node,
                           !.pc = "fallback"]
       ELSE [g EXCEPT !.last_parent_node = f.parent_node, !.pc = "fallback"]

\* Lines 97-100: the next shorter suffix.
FallbackStep(f) ==
    IF f.origin = 0
    THEN [f EXCEPT !.first = f.first + 1, !.pc = "canon"]
    ELSE IF ~InRange(f.nodes, f.origin) THEN Raise(f, "IndexError")
    ELSE [f EXCEPT !.origin = Get(f.nodes, f.origin), !.pc = "canon"]

\* E[origin, T[first]] read into edge_first, edge_last, edge_end, with its span
\* (lines 103-104, 109-110, 116-117, 122-123).
ReadEdge(f, to) ==
    IF ~InRange(f.T, f.first) THEN Raise(f, "IndexError")
    ELSE LET k == <<f.origin, Get(f.T, f.first)>> IN
         IF ~HasKey(f.E, k) THEN Raise(f, "KeyError")
         ELSE LET e == f.E[k] IN
              [f EXCEPT !.edge_first = e[1], !.edge_last = e[2], !.edge_end = e[3],
                        !.span = e[2] - e[1], !.pc = to]

\* Lines 102-104 (and 115-117): canonicalization is entered when mid-edge.
CanonEnterStep(f, loop, out) ==
    IF f.first <= f.last THEN ReadEdge(f, loop) ELSE [f EXCEPT !.pc = out]

\* Canonicalization that stops when the span equals the edge's length.
CanonLoopStepStrict(f, loop, out) ==
    IF f.span < f.last - f.first
    THEN LET g == [f EXCEPT !.first = f.first + f.span + 1, !.origin = f.edge_end] IN
         IF g.first <= g.last THEN ReadEdge(g, loop) ELSE [g EXCEPT !.pc = loop]
    ELSE [f EXCEPT !.pc = out]

\* Canonicalization that moves origin down the edge without advancing first.
CanonLoopStepHold(f, loop, out) ==
    IF f.span <= f.last - f.first
    THEN [f EXCEPT !.origin = f.edge_end, !.pc = loop]
    ELSE [f EXCEPT !.pc = out]

\* Lines 105-110 (and 118-123): one test of the while condition and one body.
CanonLoopStep(f, loop, out) ==
    IF f.span <= f.last - f.first
    THEN LET g == [f EXCEPT !.first = f.first + f.span + 1, !.origin = f.edge_end] IN
         IF g.first <= g.last THEN ReadEdge(g, loop) ELSE [g EXCEPT !.pc = loop]
    ELSE [f EXCEPT !.pc = out]

\* Lines 112-114: after the break.
AfterStep(f) ==
    LET g == [f EXCEPT !.last = f.last + 1, !.pc = "canon2"] IN
    IF f.last_parent_node > 0
    THEN IF ~InRange(f.nodes, f.last_parent_node) THEN Raise(f, "IndexError")
         ELSE [g EXCEPT !.nodes = Put(f.nodes, f.last_parent_node, f.parent_node)]
    ELSE g

\* One step of a running add.
Step(f) ==
    CASE f.pc = "for" -> ForStep(f)
      [] f.pc = "while" -> WhileStep(f)
      [] f.pc = "split1" -> Split1Step(f)
      [] f.pc = "split2" -> Split2Step(f)
      [] f.pc = "leaf" -> LeafStep(f)
      [] f.pc = "fallback" -> FallbackStep(f)
      [] f.pc = "canon" -> CanonEnterStep(f, "canonloop", "while")
      [] f.pc = "canonloop" -> CanonLoopStep(f, "canonloop", "while")
      [] f.pc = "after" -> AfterStep(f)
      [] f.pc = "canon2" -> CanonEnterStep(f, "canon2loop", "for")
      [] f.pc = "canon2loop" -> CanonLoopStep(f, "canon2loop", "for")
      [] OTHER -> f

Running(p) == p \notin {"idle", "queried", "error"}

\* add run to its return (or its exception) from a state inside it.
RECURSIVE Run(_)
Run(f) == IF Running(f.pc) THEN Run(Step(f)) ELSE f

\* ---------------------------------------------------------- make_choices
\* The orders in which the symbols may come out of E.items().
Orders == {p \in [1..Cardinality(Alphabet) -> Alphabet] :
              \A i, j \in 1..Cardinality(Alphabet) : i # j => p[i] # p[j]}

RECURSIVE Ascending(_)
Ascending(S) ==
    IF S = {} THEN <<>>
    ELSE LET x == CHOOSE x \in S : \A y \in S : x <= y IN <<x>> \o Ascending(S \ {x})

\* E.items() as a list of keys: a dict iterates in an order of its own; the
\* model takes the keys symbol by symbol in the order ord, nodes ascending.
RECURSIVE ItemsFrom(_, _, _)
ItemsFrom(d, ord, i) ==
    IF i > Len(ord) THEN <<>>
    ELSE LET ns == Ascending({k[1] : k \in {k \in DOMAIN d : k[2] = ord[i]}})
         IN [j \in 1..Len(ns) |-> <<ns[j], ord[i]>>] \o ItemsFrom(d, ord, i + 1)

Items(d, ord) == ItemsFrom(d, ord, 1)

\* Lines 137-138: choices[origin].append(c) for each item, until one raises.
RECURSIVE AppendAll(_, _, _)
AppendAll(ch, items, i) ==
    IF i > Len(items) THEN [ok |-> TRUE, ch |-> ch]
    ELSE LET k == items[i] IN
         IF ~InRange(ch, k[1]) THEN [ok |-> FALSE, ch |-> ch]
         ELSE AppendAll(Put(ch, k[1], Append(Get(ch, k[1]), k[2])), items, i + 1)

\* sorted(): insertion into an ascending list.
RECURSIVE Insert(_, _)
Insert(l, x) ==
    IF l = <<>> THEN <<x>>
    ELSE IF x <= Head(l) THEN <<x>> \o l
    ELSE <<Head(l)>> \o Insert(Tail(l), x)

\* sorted() left out: the list as the appends left it.
SortedNot(l) == l

RECURSIVE Sorted(_)
Sorted(l) == IF l = <<>> THEN <<>> ELSE Insert(Sorted(Tail(l)), Head(l))

\* Lines 136-140: [ok, raw: self.choices, val: the list returned].
MakeChoicesRun(f, ord) ==
    LET r == AppendAll(Rep(<<>>, Len(f.nodes)), Items(f.E, ord), 1) IN
    [ok |-> r.ok, raw |-> r.ch, val |-> [i \in 1..Len(r.ch) |-> Sorted(r.ch[i])]]

MakeChoicesStep(f, ord) ==
    LET r == MakeChoicesRun(f, ord)
        g == [f EXCEPT !.choices = r.raw, !.pre = Called(f, "make_choices", <<>>)]
    IN IF ~r.ok THEN Raise(g, "IndexError")
       ELSE [g EXCEPT !.ret = [op |-> "make_choices", val |-> r.val], !.pc = "queried"]

\* ------------------------------------------------------- count_substrings
\* Lines 147-156: f(node) and its loop over choices[node] from position i.
\* acc is [C: the counts list, t: the running total, ok: nothing raised].
RECURSIVE SubF(_, _, _, _, _)
RECURSIVE SubLoop(_, _, _, _, _, _)
SubF(d, ch, term, C, node) ==
    IF ~InRange(ch, node) THEN [C |-> C, t |-> 0, ok |-> FALSE]
    ELSE LET r == SubLoop(d, ch, term, [C |-> C, t |-> 0, ok |-> TRUE], node, 1) IN
         IF r.ok THEN [r EXCEPT !.C = Put(r.C, node, r.t)] ELSE r

SubLoop(d, ch, term, acc, node, i) ==
    IF i > Len(Get(ch, node)) THEN acc
    ELSE LET x == Get(ch, node)[i] IN
         IF x = term THEN SubLoop(d, ch, term, acc, node, i + 1)
         ELSE IF ~HasKey(d, <<node, x>>) THEN [acc EXCEPT !.ok = FALSE]
         ELSE LET e == d[<<node, x>>]
                  sub == SubF(d, ch, term, acc.C, e[3])
              IN IF ~sub.ok THEN [sub EXCEPT !.t = acc.t]
                 ELSE SubLoop(d, ch, term,
                              [sub EXCEPT !.t = acc.t + (e[2] - e[1] + 1) + sub.t],
                              node, i + 1)

\* Lines 145-157.
CountSubstringsStep(f, term, ord) ==
    LET mc == MakeChoicesRun(f, ord)
        g == [f EXCEPT !.counts = Rep(0, Len(f.nodes)), !.choices = mc.raw,
                       !.pre = Called(f, "count_substrings", term)]
    IN IF ~mc.ok THEN Raise(g, "IndexError")
       ELSE LET r == SubF(f.E, mc.val, term, g.counts, 0) IN
            \* a KeyError or an IndexError: LookupError is the base class of both
            IF ~r.ok THEN Raise([g EXCEPT !.counts = r.C], "LookupError")
            ELSE [g EXCEPT !.counts = r.C,
                           !.ret = [op |-> "count_substrings", val |-> r.t],
                           !.pc = "queried"]

\* --------------------------------------------------------- count_suffixes
\* Lines 164-177: f(node) and its loop over X = choices[node] from position i.
RECURSIVE SufF(_, _, _, _, _)
RECURSIVE SufLoop(_, _, _, _, _, _)
\* f without its leaf case: a node with no choices counts nothing.
SufFNoLeaf(d, ch, term, C, node) ==
    IF ~InRange(ch, node) THEN [C |-> C, t |-> 0, ok |-> FALSE]
    ELSE LET r == SufLoop(d, ch, term, [C |-> C, t |-> 0, ok |-> TRUE], node, 1) IN
         IF r.ok THEN [r EXCEPT !.C = Put(r.C, node, r.t)] ELSE r

SufF(d, ch, term, C, node) ==
    IF ~InRange(ch, node) THEN [C |-> C, t |-> 0, ok |-> FALSE]
    ELSE IF Len(Get(ch, node)) = 0 THEN [C |-> Put(C, node, 1), t |-> 1, ok |-> TRUE]
    ELSE LET r == SufLoop(d, ch, term, [C |-> C, t |-> 0, ok |-> TRUE], node, 1) IN
         IF r.ok THEN [r EXCEPT !.C = Put(r.C, node, r.t)] ELSE r

SufLoop(d, ch, term, acc, node, i) ==
    IF i > Len(Get(ch, node)) THEN acc
    ELSE LET x == Get(ch, node)[i] IN
         IF x = term THEN SufLoop(d, ch, term, [acc EXCEPT !.t = acc.t + 1], node, i + 1)
         ELSE IF ~HasKey(d, <<node, x>>) THEN [acc EXCEPT !.ok = FALSE]
         ELSE LET e == d[<<node, x>>]
                  sub == SufF(d, ch, term, acc.C, e[3])
              IN IF ~sub.ok THEN [sub EXCEPT !.t = acc.t]
                 ELSE SufLoop(d, ch, term, [sub EXCEPT !.t = acc.t + sub.t], node, i + 1)

\* Lines 162-178.
CountSuffixesStep(f, term, ord) ==
    LET mc == MakeChoicesRun(f, ord)
        g == [f EXCEPT !.suffix_counts = Rep(0, Len(f.nodes)), !.choices = mc.raw,
                       !.pre = Called(f, "count_suffixes", term)]
    IN IF ~mc.ok THEN Raise(g, "IndexError")
       ELSE LET r == SufF(f.E, mc.val, term, g.suffix_counts, 0) IN
            IF ~r.ok THEN Raise([g EXCEPT !.suffix_counts = r.C], "LookupError")
            ELSE [g EXCEPT !.suffix_counts = r.C,
                           !.ret = [op |-> "count_suffixes", val |-> r.t],
                           !.pc = "queried"]

\* ---------------------------------------------------------------- actions
AddBegin ==
    /\ pc = "idle"
    /\ calls < MaxCalls
    /\ \E batch \in Seqs(MaxTotal - Len(T)) : Load(AddBeginStep(Cur, batch))

AddOnce ==
    /\ pc = "idle"
    /\ calls = 0
    /\ \E batch \in Seqs(MaxLen) : Load(AddBeginStep(Cur, batch))

For == pc = "for" /\ Load(ForStep(Cur))
While == pc = "while" /\ Load(WhileStep(Cur))
Split1 == pc = "split1" /\ Load(Split1Step(Cur))
Split2 == pc = "split2" /\ Load(Split2Step(Cur))
Leaf == pc = "leaf" /\ Load(LeafStep(Cur))
Fallback == pc = "fallback" /\ Load(FallbackStep(Cur))
CanonEnter == pc = "canon" /\ Load(CanonEnterStep(Cur, "canonloop", "while"))
CanonLoop == pc = "canonloop" /\ Load(CanonLoopStep(Cur, "canonloop", "while"))
After == pc = "after" /\ Load(AfterStep(Cur))
Canon2Enter == pc = "canon2" /\ Load(CanonEnterStep(Cur, "canon2loop", "for"))
Canon2Loop == pc = "canon2loop" /\ Load(CanonLoopStep(Cur, "canon2loop", "for"))

AddSteps ==
    \/ For \/ While \/ Split1 \/ Split2 \/ Leaf \/ Fallback
    \/ CanonEnter \/ CanonLoop \/ After \/ Canon2Enter \/ Canon2Loop

\* The queries are explored as the last call of a behaviour: add reads none of
\* self.choices, self.counts, self.suffix_counts, so the trees reached are the same.
MakeChoices ==
    /\ pc = "idle"
    /\ \E ord \in Orders : Load(MakeChoicesStep(Cur, ord))

CountSubstrings ==
    /\ pc = "idle"
    /\ \E term \in Alphabet, ord \in Orders : Load(CountSubstringsStep(Cur, term, ord))

CountSuffixes ==
    /\ pc = "idle"
    /\ \E term \in Alphabet, ord \in Orders : Load(CountSuffixesStep(Cur, term, ord))

Init ==
    /\ T = New.T /\ E = New.E /\ nodes = New.nodes /\ choices = New.choices
    /\ counts = New.counts /\ suffix_counts = New.suffix_counts
    /\ pc = New.pc /\ exc = New.exc /\ s = New.s
    /\ origin = New.origin /\ first = New.first /\ last = New.last
    /\ nc = New.nc /\ Lm1 = New.Lm1 /\ last_char_index = New.last_char_index
    /\ c = New.c /\ last_parent_node = New.last_parent_node
    /\ parent_node = New.parent_node /\ key = New.key
    /\ edge_first = New.edge_first /\ edge_last = New.edge_last
    /\ edge_end = New.edge_end /\ span = New.span /\ A = New.A /\ m = New.m
    /\ ret = New.ret /\ calls = New.calls /\ pre = New.pre

Next == AddBegin \/ AddSteps \/ MakeChoices

Spec == Init /\ [][Next]_vars

NextOne == AddOnce \/ AddSteps \/ MakeChoices \/ CountSubstrings \/ CountSuffixes

SpecOne == Init /\ [][NextOne]_vars

\* One add call on an empty tree that, once begun, keeps executing: a call in
\* progress always takes its next step (lines 71-124 run without yielding).
SpecOneFair == Init /\ [][NextOne]_vars /\ WF_vars(AddSteps)

\* ------------------------------------------------- reading a tree (d, txt)
\* Following v from the root symbol by symbol, crossing into edge interiors:
\* [ok: the walk completed, at: it ended exactly on a node, node: that node
\* (or the node the edge it ended in leads to)].
RECURSIVE WalkNode(_, _, _, _, _)
RECURSIVE WalkEdge(_, _, _, _, _, _)
WalkNode(d, txt, v, i, node) ==
    IF i > Len(v) THEN [ok |-> TRUE, at |-> TRUE, node |-> node]
    ELSE IF ~HasKey(d, <<node, v[i]>>) THEN [ok |-> FALSE, at |-> FALSE, node |-> node]
    ELSE WalkEdge(d, txt, v, i, d[<<node, v[i]>>], d[<<node, v[i]>>][1])

WalkEdge(d, txt, v, i, e, j) ==
    IF j > e[2] THEN WalkNode(d, txt, v, i, e[3])
    ELSE IF i > Len(v) THEN [ok |-> TRUE, at |-> FALSE, node |-> e[3]]
    ELSE IF ~InRange(txt, j) \/ j < 0 THEN [ok |-> FALSE, at |-> FALSE, node |-> e[3]]
    ELSE IF Get(txt, j) # v[i] THEN [ok |-> FALSE, at |-> FALSE, node |-> e[3]]
    ELSE WalkEdge(d, txt, v, i + 1, e, j + 1)

Walk(d, txt, v) == WalkNode(d, txt, v, 1, 0)
Follows(v) == Walk(E, T, v).ok

\* The non-empty substrings of a text.
SubSeqs(txt) == {SubSeq(txt, i, j) : i \in 1..Len(txt), j \in 1..Len(txt)} \ {<<>>}

\* The nodes edges lead to (every handle add has given out), and those among
\* them that edges leave.
Dests(d) == {d[k][3] : k \in DOMAIN d}
HasOut(d, v) == \E k \in DOMAIN d : k[1] = v
Internal(d) == {v \in Dests(d) : HasOut(d, v)}
Leaves(d) == {v \in Dests(d) : ~HasOut(d, v)}

\* ------------------------------------------------------------------ claims
\* C1: in one add call on an empty tree, after the k-th iteration of the
\* per-symbol loop every substring of the first k symbols of T can be followed
\* from the root through E, and after add returns every substring of T can.
C1_SubstringsFollowed ==
    /\ pc = "for" => \A u \in SubSeqs(SubSeq(T, 1, last_char_index + 1)) : Follows(u)
    /\ pc = "idle" => \A u \in SubSeqs(T) : Follows(u)

\* C1's case: three of five symbols are processed and an edge has been split.
C1_Witness ==
    /\ pc = "for" /\ last_char_index = 2 /\ Len(T) = 5
    /\ Internal(E) # {}

\* C2: after one add call on an empty tree has returned, no string that is not
\* a substring of T can be followed from the root. (A walk that fails on a
\* prefix fails on every extension, so lengths up to Len(T) + 1 cover all.)
C2_NonSubstringsFail ==
    (pc = "idle" /\ calls = 1) =>
        \A v \in Seqs(Len(T) + 1) \ ({<<>>} \cup SubSeqs(T)) : ~Follows(v)

\* C2's case: a built tree with a split edge, and a string that leaves T inside
\* an edge (its first symbol is followed, its second is not).
C2_Witness ==
    /\ pc = "idle" /\ calls = 1 /\ Len(T) >= 4 /\ Internal(E) # {}
    /\ \E v \in Seqs(2) : Len(v) = 2 /\ v \notin SubSeqs(T) /\ Follows(<<v[1]>>)
                           /\ ~Walk(E, T, <<v[1]>>).at

\* The tree one add call on the whole text builds from an empty tree.
OneCall(txt) == Run(AddBeginStep(New, txt))

SameTree(d1, t1, d2, t2, bound) ==
    \A v \in Seqs(bound) :
        /\ Walk(d1, t1, v).ok = Walk(d2, t2, v).ok
        /\ Walk(d1, t1, v).ok => Walk(d1, t1, v).at = Walk(d2, t2, v).at

\* C3: whenever the add calls made so far have returned, the tree they built
\* is structurally the tree one add call on the whole text builds: the same
\* strings can be followed from the root, and a string ends on a node of one
\* exactly when it ends on a node of the other (so corresponding nodes have
\* the same outgoing first symbols).
C3_BatchesAsOneCall ==
    pc = "idle" => SameTree(E, T, OneCall(T).E, OneCall(T).T, Len(T) + 1)

\* The text ends with a symbol that occurs nowhere else in it.
Terminated(txt) ==
    /\ Len(txt) >= 1
    /\ \A i \in 1..(Len(txt) - 1) : txt[i] # txt[Len(txt)]

Suffix(txt, i) == SubSeq(txt, i, Len(txt))

\* C4: after one add call on an empty tree whose batch ends with a symbol that
\* occurs nowhere else in it, every suffix of T spells a path from the root
\* that ends exactly on a leaf, distinct suffixes end on distinct leaves, and
\* the tree has exactly len(T) leaves.
C4_SuffixesEndOnLeaves ==
    (pc = "idle" /\ calls = 1 /\ Terminated(T)) =>
        /\ \A i \in 1..Len(T) :
               LET w == Walk(E, T, Suffix(T, i)) IN
               w.ok /\ w.at /\ w.node \in Leaves(E)
        /\ \A i, j \in 1..Len(T) :
               i # j => Walk(E, T, Suffix(T, i)).node # Walk(E, T, Suffix(T, j)).node
        /\ Cardinality(Leaves(E)) = Len(T)

\* C4's case: a terminated text of five symbols whose tree has a split edge.
C4_Witness ==
    /\ pc = "idle" /\ calls = 1 /\ Terminated(T) /\ Len(T) = 5
    /\ Internal(E) # {}

\* The query that has returned was made with the terminator of T, after one
\* add call on an empty tree.
AskedWithTerminator(op) ==
    /\ pc = "queried" /\ ret.op = op /\ calls = 1
    /\ Terminated(T) /\ pre.arg = T[Len(T)]

\* C5: for a text w without the symbol term, after one add(w + term) on an
\* empty tree count_substrings(term) returns the number of distinct non-empty
\* substrings of w.
C5_CountsSubstringsOfW ==
    AskedWithTerminator("count_substrings") =>
        ret.val = Cardinality(SubSeqs(SubSeq(T, 1, Len(T) - 1)))

\* C6: for a text w of length n without the symbol term, after one
\* add(w + term) on an empty tree count_suffixes(term) returns n + 1, the
\* root's count.
C6_CountsSuffixes ==
    AskedWithTerminator("count_suffixes") =>
        /\ ret.val = Len(T)
        /\ Get(suffix_counts, 0) = Len(T)

\* C6's case: count_suffixes has returned for a terminated text of five symbols
\* whose tree has internal nodes, so that f has recursed.
C6_Witness ==
    /\ AskedWithTerminator("count_suffixes") /\ Len(T) = 5
    /\ Internal(E) # {}

\* The string a node represents: the edge labels from the root down to it
\* (fuel bounds the climb by the number of edges).
RECURSIVE StrUp(_, _, _, _)
StrUp(d, txt, v, fuel) ==
    IF v = 0 \/ fuel = 0 \/ v \notin Dests(d) THEN <<>>
    ELSE LET k == CHOOSE k \in DOMAIN d : d[k][3] = v IN
         StrUp(d, txt, k[1], fuel - 1) \o SubSeq(txt, d[k][1] + 1, d[k][2] + 1)

Str(v) == StrUp(E, T, v, Cardinality(DOMAIN E))

\* nodes[v] is the handle of a node that represents v's string without its
\* first symbol.
LinkResolved(v) ==
    /\ InRange(nodes, v)
    /\ Get(nodes, v) \in {0} \cup Dests(E)
    /\ Str(v) # <<>>
    /\ Str(Get(nodes, v)) = Tail(Str(v))

\* C7 as stated: after one add call on an empty tree has returned, the suffix
\* link of every non-root node handle add has given out is resolved.
C7_EveryNodeLinked ==
    (pc = "idle" /\ calls = 1) => \A v \in Dests(E) : LinkResolved(v)

\* C7 as amended: after one add call on an empty tree has returned, the suffix
\* link of every node made by an edge split (every non-root node that edges
\* leave) is resolved; the handles of leaves keep the -1 they were given.
C7_SplitNodesLinked ==
    (pc = "idle" /\ calls = 1) => \A v \in Internal(E) : LinkResolved(v)

\* C7's case: a returned add that has split edges, with a link that leads to
\* another split node and one that leads to the root.
C7_Witness ==
    /\ pc = "idle" /\ calls = 1
    /\ \E v, w \in Internal(E) : Get(nodes, v) = w /\ Get(nodes, w) = 0

\* C8: in every state during and after add, also between the two writes of
\* an edge split, the label of the edge stored under key (v, c) begins with c
\* (so no two edges out of one node begin with the same symbol).
C8_EdgeBeginsWithItsKey ==
    \A k \in DOMAIN E :
        /\ 0 <= E[k][1] /\ E[k][1] < Len(T)
        /\ Get(T, E[k][1]) = k[2]

\* C8's case: between the two writes of an edge split, in a later add call.
C8_Witness ==
    /\ pc = "split2" /\ calls >= 2
    /\ Cardinality(DOMAIN E) >= 2

\* C9: add with an empty batch raises nothing and leaves T, E and the
\* suffix-link store as they were when it was called, on any tree.
C9_EmptyBatchNoOp ==
    (pre.op = "add" /\ pre.arg = <<>>) =>
        /\ pc \in {"for", "idle"}
        /\ T = pre.T /\ E = pre.E /\ nodes = pre.nodes

\* C9's case: add('') has returned on a tree built by an earlier call that
\* split an edge.
C9_Witness ==
    /\ pc = "idle" /\ pre.op = "add" /\ pre.arg = <<>>
    /\ calls >= 2 /\ Internal(E) # {}

StrictlyAscending(l) == \A i \in 1..(Len(l) - 1) : l[i] < l[i + 1]
Elems(l) == {l[i] : i \in 1..Len(l)}

\* C10: the list make_choices returns for a node index holds exactly the first
\* symbols of that node's outgoing edges in E, each once, in ascending order;
\* and make_choices leaves T, E and the suffix-link store as they were.
C10_ChoicesAreOutgoing ==
    (pc = "queried" /\ ret.op = "make_choices") =>
        /\ Len(ret.val) = Len(nodes)
        /\ \A n \in 0..(Len(nodes) - 1) :
               /\ StrictlyAscending(Get(ret.val, n))
               /\ Elems(Get(ret.val, n)) = {x \in Alphabet : HasKey(E, <<n, x>>)}
        /\ T = pre.T /\ E = pre.E /\ nodes = pre.nodes

\* make_choices has returned after one add('aaa$') on an empty tree.
ChoicesOfAaaDollar ==
    /\ pc = "queried" /\ ret.op = "make_choices" /\ calls = 1
    /\ T = <<97, 97, 97, 36>>

\* C11 as stated: for 'aaa$' added in one call, the list returned for the root
\* is ['a', '$'].
C11_RootIsAThenDollar ==
    ChoicesOfAaaDollar => Get(ret.val, 0) = <<97, 36>>

\* C11 as amended: for 'aaa$' added in one call, the list returned for the root
\* is ['$', 'a'], the order of the character codes.
C11_RootIsDollarThenA ==
    ChoicesOfAaaDollar => Get(ret.val, 0) = <<36, 97>>

\* C11's case: the appends left the root's list as ['a', '$'], so sorted()
\* reordered it.
C11_Witness ==
    ChoicesOfAaaDollar /\ Get(choices, 0) = <<97, 36>>

C13_ActivePointCanonical ==
    /\ pc # "error"
    /\ (pc \in {"for", "while"} /\ first <= last) =>
           /\ InRange(T, first)
           /\ HasKey(E, <<origin, Get(T, first)>>)
           /\ LET e == E[<<origin, Get(T, first)>>] IN
                  /\ last - first + 1 <= e[2] - e[1]
                  /\ e[1] + (last - first) + 1 <= e[2]

\* C13's case: in a tree that has a split node, the while loop starts with an
\* active point two or more symbols down an edge, after a fallback.
C13_Witness ==
    /\ pc = "while" /\ first < last
    /\ Internal(E) # {}
    /\ last_parent_node > 0

\* C14: in any sequence of add calls, whenever the fallback step follows a
\* suffix link (origin # 0 at line 100), the value it reads is a resolved
\* link: the handle of an existing node that represents origin's string
\* without its first symbol, never the -1 sentinel.
C14_FollowedLinkResolved ==
    (pc = "fallback" /\ origin # 0) => LinkResolved(origin)

C16_NoEdgeLost ==
    [][/\ DOMAIN E \subseteq DOMAIN E'
       /\ E' # E => pc \in {"split1", "split2", "leaf"}
       /\ \A k \in DOMAIN E : E'[k] # E[k] =>
              /\ pc = "split1" /\ pc' = "split2"
              /\ k = key /\ k = <<origin, Get(T, first)>>
              /\ E[k] = <<edge_first, edge_last, edge_end>>
              /\ E'[k] = <<edge_first, A, nc>>
              /\ edge_first <= A /\ A < edge_last
              /\ nc > 0 /\ nc \notin Dests(E) /\ ~HasOut(E, nc)
       /\ pc = "split2" =>
              /\ <<nc, m>> \notin DOMAIN E
              /\ E[key] = <<edge_first, A, nc>>
              /\ E' = SetItem(E, <<nc, m>>, <<A + 1, edge_last, edge_end>>)
       /\ pc = "leaf" =>
              /\ <<parent_node, c>> \notin DOMAIN E
              /\ DOMAIN E' = DOMAIN E \cup {<<parent_node, c>>}
      ]_vars

\* C16's case: a split has been carried out on an edge that did not end at the
\* end of T, in a tree that already had other edges.
C16_Witness ==
    /\ pc = "leaf" /\ parent_node = nc - 1
    /\ HasKey(E, <<parent_node, m>>)
    /\ edge_last < Lm1
    /\ Cardinality(DOMAIN E) >= 4

\* C18: in any sequence of add calls, a call add(s) hands out at most 2*len(s)
\* handles, counted from the length self.nodes had when the call began; no two
\* edges lead to the same handle and every handle in E is below the counter, so
\* every handle is an index of self.nodes and the write nodes[nc] = origin of a
\* split is never out of range.
C18_HandlesInRange ==
    /\ Running(pc) =>
           /\ Len(pre.nodes) <= nc /\ nc <= Len(nodes)
           /\ nc - Len(pre.nodes) <= 2 * Len(s)
           /\ \A v \in Dests(pre.E) : v < Len(pre.nodes)
           /\ \A v \in Dests(E) \ Dests(pre.E) : v >= Len(pre.nodes)
           /\ \A v \in Dests(E) : v < (IF pc = "split2" THEN nc + 1 ELSE nc)
    /\ \A k1, k2 \in DOMAIN E : E[k1][3] = E[k2][3] => k1 = k2
    /\ \A v \in Dests(E) : v > 0 /\ v < Len(nodes)
    /\ pc = "split1" => InRange(nodes, nc)
    /\ exc # "IndexError"

\* C18's case: a later add call, having handed out handles of its own, has
\* just written nodes[nc] for a split.
C18_Witness ==
    /\ pc = "split2" /\ calls >= 2
    /\ Len(pre.nodes) > 1
    /\ nc > Len(pre.nodes)
    /\ Get(nodes, nc) = origin

\* C17: a single add call on an empty tree returns, from whatever point of
\* lines 71-124 it has reached. The call returns only from the head of the for
\* loop, which it reaches from the while loop only through a break (lines 78
\* and 86) and from a canonicalization loop only through its exit, and an
\* exception never returns: so every while loop reaches a break and every
\* canonicalization loop exits.
C17_AddReturns == Running(pc) ~> (pc = "idle")

\* C17's case: a call that split edges and followed a suffix link has
\* returned.
C17_Witness ==
    /\ pc = "idle" /\ calls = 1 /\ Len(T) = MaxLen
    /\ Cardinality(Internal(E)) >= 2
    /\ \E v \in Internal(E) : Get(nodes, v) # 0

\* The keys of the edges that leave node v.
OutKeys(v) == {k \in DOMAIN E : k[1] = v}

\* C19: after one add call on an empty tree has returned, every non-root node
\* that edges leave has at least two outgoing edges, and its suffix link is the
\* root or another such node, one that represents the node's string without
\* its first symbol.
C19_InternalNodesBranch ==
    (pc = "idle" /\ calls = 1) =>
        \A v \in Internal(E) :
            /\ Cardinality(OutKeys(v)) >= 2
            /\ Get(nodes, v) \in ({0} \cup Internal(E)) \ {v}
            /\ Str(v) # <<>>
            /\ Str(Get(nodes, v)) = Tail(Str(v))

\* C19's case: a returned add with a split node that three edges leave and
\* whose link leads to the root.
C19_Witness ==
    /\ pc = "idle" /\ calls = 1
    /\ \E v \in Internal(E) : Cardinality(OutKeys(v)) >= 3 /\ Get(nodes, v) = 0
=============================================================================
